---- MODULE Spec2Model ----
(***************************************************************************)
(* Zero padding of blocked memory (src/cpu/cpu_memory.cpp).                *)
(*                                                                         *)
(* cpu_memory_t::zero_pad() writes zeros into the padding elements of a    *)
(* buffer laid out in a blocked format.  The state is one memory object    *)
(* (its descriptor conf_ and its buffer data_) and the record of the last  *)
(* call made on it.  Indices are 0-based as in the source: Dim(md, i) is   *)
(* dims[i].                                                                *)
(***************************************************************************)
EXTENDS Integers, Sequences, FiniteSets

VARIABLES
    md,         \* conf_: [fmt, dt, dims, pdims]
    data_null,  \* data_ == nullptr
    buf,        \* the buffer: physical offset -> element value
    pre,        \* the buffer as it was when the last call began
    status,     \* what the last call returned ("none" before the first call,
                \* "running" inside a handler)
    path,       \* the branch the last call took
    written,    \* the physical offsets the last call stored to
    flat,       \* <<e, x>>: iteration e of the generic loop passed x to off_l
    multi,      \* the offsets stored to by two tuples of one parallel_nd
    twice,      \* the offsets stored to more than once during the last call
    asserted,   \* an assert of a handler failed during the last call
    calls,      \* the number of calls made so far
    nthr,       \* the number of threads parallel_nd runs its index tuples on
    pc,         \* "idle", or "par" while a parallel_nd of a call is running
    sweeps,     \* the parallel_nd loops the running call has still to run
    pending,    \* the index tuples the running parallel_nd has not run yet
    writers     \* the offsets the running parallel_nd has stored to so far

vars == <<md, data_null, buf, pre, status, path, written, flat, multi, twice,
          asserted, calls, nthr, pc, sweeps, pending, writers>>

(***************************************************************************)
(* Bounds of the model.                                                    *)
(***************************************************************************)
\* an axis that is not blocked (batch, groups, plain channels, spatial axes)
\* has extent 1 or MaxExtent
MaxExtent == 2
\* a blocked axis of tile size b has logical size b-MaxDelta, b or b+MaxDelta
MaxDelta == 1
\* the largest buffer, in elements
MaxElems == 1024
\* tile size of the blocked axis of the descriptors of format `blocked`
GenericBlock == 2
\* calls of zero_pad made on one memory object
MaxCalls == 2
\* the most index tuples of one parallel_nd that are run in every order
MaxParIters == 4

(***************************************************************************)
(* The format tags, as the source lists them.                              *)
(***************************************************************************)
\* is_data_blocked_fmt<fmt>::value (cpu_memory.cpp:46-46)
is_data_blocked_fmt ==
    {"nCw8c", "nCw16c", "nChw8c", "nChw16c", "nCdhw8c", "nCdhw16c"}

\* typed_zero_pad_data: the tags whose blksize is 8 (cpu_memory.cpp:53-53)
data_blksize8_fmt ==
    {"nCw8c", "nChw8c", "nCdhw8c"}

\* is_wei_O_blocked_fmt<fmt>::value (cpu_memory.cpp:75-77)
is_wei_O_blocked_fmt ==
    {"Oiw16o", "Owi16o", "Ohwi8o", "Oihw16o", "Ohwi16o", "Oidhw16o",
     "Odhwi16o", "Odhwi8o", "gOiw16o", "gOwi16o", "gOhwi8o", "gOwi8o",
     "Owi8o", "gOihw16o", "gOhwi16o", "gOidhw16o", "gOdhwi16o", "gOdhwi8o"}

\* typed_zero_pad_weights (O blocked): w_groups (cpu_memory.cpp:84-85)
wei_O_w_groups_fmt ==
    {"gOiw16o", "gOwi16o", "gOhwi8o", "gOwi8o", "gOihw16o", "gOhwi16o",
     "gOidhw16o", "gOdhwi16o", "gOdhwi8o"}

\* typed_zero_pad_weights (O blocked): is_1d (cpu_memory.cpp:87-88)
wei_O_is_1d_fmt ==
    {"Oiw16o", "Owi16o", "gOiw16o", "gOwi16o", "gOwi8o", "Owi8o"}

\* typed_zero_pad_weights (O blocked): is_3d (cpu_memory.cpp:89-90)
wei_O_is_3d_fmt ==
    {"Oidhw16o", "Odhwi16o", "Odhwi8o", "gOidhw16o", "gOdhwi16o", "gOdhwi8o"}

\* typed_zero_pad_weights (O blocked): the tags whose blksize is 8 (cpu_memory.cpp:92-93)
wei_O_blksize8_fmt ==
    {"Owi8o", "gOwi8o", "Ohwi8o", "gOhwi8o", "Odhwi8o", "gOdhwi8o"}

\* is_wei_I_blocked_fmt<fmt>::value (cpu_memory.cpp:117-117)
is_wei_I_blocked_fmt ==
    {"oIhw8i", "oIhw16i", "oIdhw8i", "oIdhw16i"}

\* typed_zero_pad_weights (I blocked): the tags whose blksize is 8 (cpu_memory.cpp:125-125)
wei_I_blksize8_fmt ==
    {"oIhw8i", "oIdhw8i"}

\* typed_zero_pad_weights (I blocked): is_3d (cpu_memory.cpp:128-128)
wei_I_is_3d_fmt ==
    {"oIdhw8i", "oIdhw16i"}

\* is_wei_IO_blocked_fmt<fmt>::value (cpu_memory.cpp:155-162)
is_wei_IO_blocked_fmt ==
    {"IOhw16o16i", "gIOhw16o16i", "IOw16o16i", "gIOw16o16i", "OIdhw16i16o",
     "OIdhw16o16i", "OIhw8i8o", "OIw8i8o", "gOIw8i8o", "OIw8o8i", "gOIw8o8i",
     "OIhw16i16o", "OIhw4i16o4i", "OIhw8i16o2i", "OIdhw8i16o2i",
     "OIhw8o16i2o", "OIhw8o8i", "OIhw16o16i", "OIdhw8i8o", "OIdhw8o8i",
     "gOIhw8i8o", "OIw8o16i2o", "gOIw8o16i2o", "gOIhw16i16o", "gOIhw4i16o4i",
     "gOIhw8i16o2i", "gOIdhw8i16o2i", "gOIhw8o16i2o", "gOIhw8o8i",
     "gOIhw16o16i", "gOIdhw16i16o", "gOIdhw16o16i", "gOIdhw8i8o",
     "gOIdhw8o8i", "OIw8i16o2i", "gOIw8i16o2i", "OIw16i16o", "OIw16o16i",
     "gOIw16i16o", "gOIw16o16i"}

\* typed_zero_pad_weights (IO blocked): w_groups (cpu_memory.cpp:170-173)
wei_IO_w_groups_fmt ==
    {"gOIhw8i8o", "gOIhw16i16o", "gOIhw4i16o4i", "gOIhw8i16o2i",
     "gOIdhw8i16o2i", "gOIhw8o16i2o", "gOIhw8o8i", "gOIhw16o16i",
     "gIOhw16o16i", "gOIdhw16i16o", "gOIdhw16o16i", "gOIdhw8i8o",
     "gOIdhw8o8i", "gOIw8i16o2i", "gOIw8i8o", "gOIw8o8i", "gOIw8o16i2o",
     "gIOw16o16i"}

\* typed_zero_pad_weights (IO blocked): is_1d (cpu_memory.cpp:175-177)
wei_IO_is_1d_fmt ==
    {"IOw16o16i", "gIOw16o16i", "OIw8i8o", "gOIw8i8o", "OIw8o8i", "gOIw8o8i",
     "OIw8o16i2o", "gOIw8o16i2o", "OIw8i16o2i", "gOIw8i16o2i", "OIw16i16o",
     "OIw16o16i", "gOIw16i16o", "gOIw16o16i"}

\* typed_zero_pad_weights (IO blocked): is_3d (cpu_memory.cpp:178-180)
wei_IO_is_3d_fmt ==
    {"OIdhw16i16o", "OIdhw16o16i", "OIdhw8i16o2i", "OIdhw8i8o", "OIdhw8o8i",
     "gOIdhw8i16o2i", "gOIdhw16i16o", "gOIdhw16o16i", "gOIdhw8i8o",
     "gOIdhw8o8i"}

\* typed_zero_pad_weights (IO blocked): the tags whose blksize is 8 (cpu_memory.cpp:182-184)
wei_IO_blksize8_fmt ==
    {"OIw8o8i", "gOIw8o8i", "OIw8i8o", "gOIw8i8o", "OIhw8o8i", "gOIhw8o8i",
     "OIhw8i8o", "gOIhw8i8o", "OIdhw8o8i", "gOIdhw8o8i", "OIdhw8i8o",
     "gOIdhw8i8o"}

\* index lambda, first branch (cpu_memory.cpp:198-200)
index_8i16o2i_fmt ==
    {"OIw8i16o2i", "gOIw8i16o2i", "OIhw8i16o2i", "gOIhw8i16o2i",
     "OIdhw8i16o2i", "gOIdhw8i16o2i"}

\* index lambda, second branch (cpu_memory.cpp:202-202)
index_4i16o4i_fmt ==
    {"OIhw4i16o4i", "gOIhw4i16o4i"}

\* index lambda, third branch (cpu_memory.cpp:204-205)
index_8o16i2o_fmt ==
    {"OIhw8o16i2o", "gOIhw8o16i2o", "OIw8o16i2o", "gOIw8o16i2o"}

\* index lambda, fourth branch (cpu_memory.cpp:208-210)
index_io_fmt ==
    {"OIw8i8o", "gOIw8i8o", "OIw16i16o", "gOIw16i16o", "OIhw8i8o",
     "gOIhw8i8o", "OIhw16i16o", "gOIhw16i16o", "OIdhw8i8o", "gOIdhw8i8o",
     "OIdhw16i16o", "gOIdhw16i16o"}

\* is_wei_G_blocked_fmt<fmt>::value (cpu_memory.cpp:248-248)
is_wei_G_blocked_fmt ==
    {"Goihw8g", "Goihw16g"}

\* the tags typed_zero_pad tests with MAYBE_DATA / MAYBE_WEIGHTS (cpu_memory.cpp:336-409)
dispatched_fmt ==
    {"nCw8c", "nCw16c", "nChw8c", "nCdhw8c", "nChw16c", "nCdhw16c",
     "OIdhw8i8o", "OIdhw8o8i", "OIdhw16i16o", "OIdhw16o16i", "Oidhw16o",
     "Odhwi16o", "Odhwi8o", "oIhw8i", "oIhw16i", "oIdhw8i", "oIdhw16i",
     "OIhw8i8o", "OIhw16i16o", "OIhw4i16o4i", "Owi8o", "OIw8i8o", "OIw8o8i",
     "OIw16i16o", "OIw16o16i", "Oiw16o", "Owi16o", "OIw8i16o2i",
     "OIw8o16i2o", "IOw16o16i", "OIhw8i16o2i", "OIdhw8i16o2i", "OIhw8o16i2o",
     "OIhw8o8i", "OIhw16o16i", "IOhw16o16i", "Oihw16o", "Ohwi8o", "Ohwi16o",
     "gOIhw8i8o", "gOIhw16i16o", "gOIhw4i16o4i", "gOwi8o", "gOIw8i8o",
     "gOIw8o8i", "gOIw16i16o", "gOIw16o16i", "gOiw16o", "gOwi16o",
     "gOIw8i16o2i", "gOIw8o16i2o", "gIOw16o16i", "gOIhw8i16o2i",
     "gOIdhw8i16o2i", "gOIhw8o16i2o", "gOIhw8o8i", "gOIhw16o16i",
     "gIOhw16o16i", "gOihw16o", "gOhwi8o", "gOhwi16o", "gOIdhw8i8o",
     "gOIdhw8o8i", "gOIdhw16i16o", "gOIdhw16o16i", "gOidhw16o", "gOdhwi16o",
     "gOdhwi8o", "Goihw8g", "Goihw16g"}

(***************************************************************************)
(* What a tag's name says about its layout (the naming convention of the   *)
(* memory formats: mkldnn_types.h, memory_desc_wrapper).                   *)
(***************************************************************************)
\* tags named with a leading g: the layout has a leading group axis
tag_grouped ==
    {"gOIhw8i8o", "gOIhw16i16o", "gOIhw4i16o4i", "gOwi8o", "gOIw8i8o",
     "gOIw8o8i", "gOIw16i16o", "gOIw16o16i", "gOiw16o", "gOwi16o",
     "gOIw8i16o2i", "gOIw8o16i2o", "gIOw16o16i", "gOIhw8i16o2i",
     "gOIdhw8i16o2i", "gOIhw8o16i2o", "gOIhw8o8i", "gOIhw16o16i",
     "gIOhw16o16i", "gOihw16o", "gOhwi8o", "gOhwi16o", "gOIdhw8i8o",
     "gOIdhw8o8i", "gOIdhw16i16o", "gOIdhw16o16i", "gOidhw16o", "gOdhwi16o",
     "gOdhwi8o"}

\* tags whose spatial part is w
tag_1d ==
    {"nCw8c", "nCw16c", "Owi8o", "OIw8i8o", "OIw8o8i", "OIw16i16o",
     "OIw16o16i", "Oiw16o", "Owi16o", "OIw8i16o2i", "OIw8o16i2o",
     "IOw16o16i", "gOwi8o", "gOIw8i8o", "gOIw8o8i", "gOIw16i16o",
     "gOIw16o16i", "gOiw16o", "gOwi16o", "gOIw8i16o2i", "gOIw8o16i2o",
     "gIOw16o16i"}

\* tags whose spatial part is dhw
tag_3d ==
    {"nCdhw8c", "nCdhw16c", "OIdhw8i8o", "OIdhw8o8i", "OIdhw16i16o",
     "OIdhw16o16i", "Oidhw16o", "Odhwi16o", "Odhwi8o", "oIdhw8i", "oIdhw16i",
     "OIdhw8i16o2i", "gOIdhw8i16o2i", "gOIdhw8i8o", "gOIdhw8o8i",
     "gOIdhw16i16o", "gOIdhw16o16i", "gOidhw16o", "gOdhwi16o", "gOdhwi8o"}

\* tags blocked by 8 (8c, 8o, 8i, 8g, 8i8o, 8o8i); every other tag is blocked by 16
tag_blk8 ==
    {"nCw8c", "nChw8c", "nCdhw8c", "OIdhw8i8o", "OIdhw8o8i", "Odhwi8o",
     "oIhw8i", "oIdhw8i", "OIhw8i8o", "Owi8o", "OIw8i8o", "OIw8o8i",
     "OIhw8o8i", "Ohwi8o", "gOIhw8i8o", "gOwi8o", "gOIw8i8o", "gOIw8o8i",
     "gOIhw8o8i", "gOhwi8o", "gOIdhw8i8o", "gOIdhw8o8i", "gOdhwi8o",
     "Goihw8g"}

\* tags whose outer order puts the input-channel blocks before the output-channel blocks (IO...)
tag_input_outer ==
    {"IOw16o16i", "IOhw16o16i", "gIOw16o16i", "gIOhw16o16i"}

\* tags whose outer order puts the input channels after the spatial axes (Owi, Ohwi, Odhwi)
tag_channels_last ==
    {"Odhwi16o", "Odhwi8o", "Owi8o", "Owi16o", "Ohwi8o", "Ohwi16o", "gOwi8o",
     "gOwi16o", "gOhwi8o", "gOhwi16o", "gOdhwi16o", "gOdhwi8o"}

\* tags whose tile is laid out 8i16o2i
tag_tile_8i16o2i ==
    {"OIw8i16o2i", "OIhw8i16o2i", "OIdhw8i16o2i", "gOIw8i16o2i",
     "gOIhw8i16o2i", "gOIdhw8i16o2i"}

\* tags whose tile is laid out 4i16o4i
tag_tile_4i16o4i ==
    {"OIhw4i16o4i", "gOIhw4i16o4i"}

\* tags whose tile is laid out 8o16i2o
tag_tile_8o16i2o ==
    {"OIw8o16i2o", "OIhw8o16i2o", "gOIw8o16i2o", "gOIhw8o16i2o"}

\* tags whose tile is laid out XiXo
tag_tile_io ==
    {"OIdhw8i8o", "OIdhw16i16o", "OIhw8i8o", "OIhw16i16o", "OIw8i8o",
     "OIw16i16o", "gOIhw8i8o", "gOIhw16i16o", "gOIw8i8o", "gOIw16i16o",
     "gOIdhw8i8o", "gOIdhw16i16o"}

\* tags whose tile is laid out XoXi
tag_tile_oi ==
    {"OIdhw8o8i", "OIdhw16o16i", "OIw8o8i", "OIw16o16i", "IOw16o16i",
     "OIhw8o8i", "OIhw16o16i", "IOhw16o16i", "gOIw8o8i", "gOIw16o16i",
     "gIOw16o16i", "gOIhw8o8i", "gOIhw16o16i", "gIOhw16o16i", "gOIdhw8o8i",
     "gOIdhw16o16i"}

\* the format of a descriptor with explicit blocking and no dedicated tag
generic_fmt == {"blocked"}
\* formats that are not blocking descriptors (the zero descriptor, Winograd)
other_fmt == {"undef", "wino_fmt"}

tag_blk(f) ==
    IF f \in generic_fmt THEN GenericBlock ELSE IF f \in tag_blk8 THEN 8 ELSE 16

tag_g(f) == IF f \in tag_grouped THEN 1 ELSE 0

tag_spatial(f) == IF f \in tag_1d THEN 1 ELSE IF f \in tag_3d THEN 3 ELSE 2

\* the number of axes of a tensor of format f
tag_rank(f) ==
    IF f \in is_data_blocked_fmt THEN 2 + tag_spatial(f)
    ELSE IF f \in is_wei_G_blocked_fmt THEN 5
    ELSE IF f \in dispatched_fmt THEN tag_g(f) + 2 + tag_spatial(f)
    ELSE IF f \in generic_fmt THEN 3
    ELSE IF f = "wino_fmt" THEN 4
    ELSE 0

\* the axes the format splits into tiles
blocked_axes(f) ==
    IF f \in is_data_blocked_fmt THEN {1}
    ELSE IF f \in is_wei_O_blocked_fmt THEN {tag_g(f)}
    ELSE IF f \in is_wei_I_blocked_fmt THEN {1}
    ELSE IF f \in is_wei_IO_blocked_fmt THEN {tag_g(f), tag_g(f) + 1}
    ELSE IF f \in is_wei_G_blocked_fmt THEN {0}
    ELSE IF f \in generic_fmt THEN {1}
    ELSE {}

(***************************************************************************)
(* memory_desc_wrapper: the descriptor's queries.                          *)
(***************************************************************************)
NDims(m) == Len(m.dims)
Dim(m, i) == m.dims[i + 1]
PDim(m, i) == m.pdims[i + 1]

RECURSIVE array_product(_, _, _)
\* utils::array_product(arr + from, n)
array_product(arr, from, n) ==
    IF n <= 0 THEN 1 ELSE arr[from + 1] * array_product(arr, from + 1, n - 1)

is_zero(m) == NDims(m) = 0

nelems(m, with_padding) ==
    IF is_zero(m) THEN 0
    ELSE array_product(IF with_padding THEN m.pdims ELSE m.dims, 0, NDims(m))

format_normalize(f) ==
    IF f \in dispatched_fmt \cup generic_fmt THEN "blocked" ELSE f

is_blocking_desc(m) == format_normalize(m.fmt) = "blocked"

block_dims(m, a) == IF a \in blocked_axes(m.fmt) THEN tag_blk(m.fmt) ELSE 1

\* the axes from the outermost to the innermost of the tiles' order
outer_order(m) ==
    LET n == NDims(m)
        g == tag_g(m.fmt)
    IN  IF m.fmt \in tag_input_outer
        THEN [k \in 1..n |-> IF k - 1 = g THEN g + 1
                             ELSE IF k - 1 = g + 1 THEN g ELSE k - 1]
        ELSE IF m.fmt \in tag_channels_last
        THEN [k \in 1..n |-> IF k - 1 <= g THEN k - 1
                             ELSE IF k = n THEN g + 1 ELSE k]
        ELSE [k \in 1..n |-> k - 1]

\* blocking_desc().strides[0]: the stride of one tile step along each axis
strides0(m) ==
    LET n == NDims(m)
        ord == outer_order(m)
        ext(a) == (PDim(m, a) \div block_dims(m, a))
        inner == array_product([k \in 1..n |-> block_dims(m, k - 1)], 0, n)
        RECURSIVE suf(_)
        suf(k) == IF k > n THEN inner ELSE ext(ord[k]) * suf(k + 1)
    IN  [a \in 0..(n - 1) |-> suf((CHOOSE k \in 1..n : ord[k] = a) + 1)]

RECURSIVE dot(_, _, _)
dot(args, st, k) ==
    IF k > Len(args) THEN 0 ELSE args[k] * st[k - 1] + dot(args, st, k + 1)

\* blk_off<skip_first>(args...): the offset of the tile at the given tile
\* indices; skip_first drops the first argument, absent arguments are 0
blk_off(m, skip_first, args) ==
    dot(IF skip_first THEN Tail(args) ELSE args, strides0(m), 1)

\* the layout of the tile of both channel axes, from the tag's name
tile_kind(f) ==
    IF f \in tag_tile_8i16o2i THEN "8i16o2i"
    ELSE IF f \in tag_tile_4i16o4i THEN "4i16o4i"
    ELSE IF f \in tag_tile_8o16i2o THEN "8o16i2o"
    ELSE IF f \in tag_tile_io THEN "io"
    ELSE IF f \in tag_tile_oi THEN "oi"
    ELSE "none"

\* the offset of in-tile position (ic, oc) in a tile of kind tk and size b
tile_off(tk, b, ic, oc) ==
    CASE tk = "8i16o2i" -> (ic \div 2) * 32 + oc * 2 + (ic % 2)
      [] tk = "4i16o4i" -> (ic \div 4) * 64 + oc * 4 + (ic % 4)
      [] tk = "8o16i2o" -> (oc \div 2) * 32 + ic * 2 + (oc % 2)
      [] tk = "io" -> ic * b + oc
      [] tk = "oi" -> oc * b + ic

\* what off_v reads of the descriptor's blocking
layout(m) ==
    [st |-> strides0(m),
     bd |-> [k \in 1..NDims(m) |-> block_dims(m, k - 1)],
     b |-> tag_blk(m.fmt),
     g |-> tag_g(m.fmt),
     ba |-> blocked_axes(m.fmt),
     tk |-> tile_kind(m.fmt)]

\* off_v(pos, true) on the layout L: the physical offset of a position of
\* the padded index space; pos is a function on 0..ndims-1
off_v_at(L, pos) ==
    LET tiles == dot([k \in 1..Len(L.bd) |-> (pos[k - 1] \div L.bd[k])],
                     L.st, 1)
    IN  IF L.tk # "none"
        THEN tiles + tile_off(L.tk, L.b, pos[L.g + 1] % L.b, pos[L.g] % L.b)
        ELSE IF L.ba = {} THEN tiles
        ELSE tiles + (pos[CHOOSE a \in L.ba : TRUE] % L.b)

off_v(m, pos) == off_v_at(layout(m), pos)

\* the number of flat indices one step along each axis spans
flat_spans(m) ==
    [d \in 0..(NDims(m) - 1) |->
        array_product(m.pdims, d + 1, NDims(m) - d - 1)]

\* the position a flat index of the padded index space decodes to: each
\* axis takes l % padding_dims[d], what is left over after axis 0 is dropped
pos_at(m, sp, l) ==
    [d \in DOMAIN sp |-> (l \div sp[d]) % m.pdims[d + 1]]

pos_l(m, l) == pos_at(m, flat_spans(m), l)

\* off_l(l_offset, true)
off_l(m, l) == off_v(m, pos_l(m, l))

(***************************************************************************)
(* The memory objects the model draws from.                                *)
(***************************************************************************)
data_types == {"f32", "s32", "s16", "s8", "u8"}
all_data_types == data_types \cup {"undef"}

formats == dispatched_fmt \cup generic_fmt \cup other_fmt

round_up(x, b) == ((x + b - 1) \div b) * b

axis_sizes(f, a) ==
    IF a \in blocked_axes(f)
    THEN {x \in {tag_blk(f) - MaxDelta, tag_blk(f), tag_blk(f) + MaxDelta} :
            x >= 1}
    ELSE {1, MaxExtent}

RECURSIVE shapes_upto(_, _)
shapes_upto(f, k) ==
    IF k = 0 THEN {<< >>}
    ELSE {Append(s, x) : s \in shapes_upto(f, k - 1), x \in axis_sizes(f, k - 1)}

\* the smallest shape of format f that has padding
base_shape(f) ==
    [k \in 1..tag_rank(f) |->
        IF k - 1 \in blocked_axes(f) THEN tag_blk(f) - 1 ELSE 1]

\* the descriptor the library builds for a format and logical sizes: a
\* blocked axis is padded to the next multiple of the tile size
make_md(f, dt, dims) ==
    [fmt |-> f, dt |-> dt, dims |-> dims,
     pdims |-> [k \in 1..Len(dims) |->
                  IF k - 1 \in blocked_axes(f)
                  THEN round_up(dims[k], tag_blk(f)) ELSE dims[k]]]

\* the buffer's content before the first call: no element is zero
sentinel(a) == 1 + (a % 3)
fresh_buffer(m) == [a \in 0..(nelems(m, TRUE) - 1) |-> sentinel(a)]

\* the shapes of format f whose buffer has at most MaxElems elements
shapes(f) ==
    {s \in shapes_upto(f, tag_rank(f)) :
        nelems(make_md(f, "f32", s), TRUE) <= MaxElems}

\* every shape as f32 with a buffer; the base shape with every data type,
\* with and without a buffer
objects_of(f) ==
    {<<make_md(f, "f32", s), FALSE>> : s \in shapes(f)}
    \cup {<<make_md(f, dt, base_shape(f)), nul>> :
            dt \in all_data_types, nul \in BOOLEAN}

memory_objects == UNION {objects_of(f) : f \in formats}

(***************************************************************************)
(* typed_zero_pad_data: the channel-blocked activations.                   *)
(***************************************************************************)
data_blksize(f) == IF f \in data_blksize8_fmt THEN 8 ELSE 16

\* assert(c_tail_start != 0)
typed_zero_pad_data_assert(m) == Dim(m, 1) % data_blksize(m.fmt) # 0

\* parallel_nd(dims[0], dims[2], ...)
typed_zero_pad_data_space(m) ==
    {<<n, sp0>> : n \in 0..(Dim(m, 0) - 1), sp0 \in 0..(Dim(m, 2) - 1)}

\* the offsets one iteration stores to
typed_zero_pad_data_body(m, t) ==
    LET blksize == data_blksize(m.fmt)
        C == (PDim(m, 1) \div blksize) - 1
        c_tail_start == Dim(m, 1) % blksize
        sp_rest == array_product(m.dims, 3, NDims(m) - 3)
        d == blk_off(m, FALSE, <<t[1], C, t[2]>>)
    IN  {d + sp * blksize + c :
            sp \in 0..(sp_rest - 1), c \in c_tail_start..(blksize - 1)}

(***************************************************************************)
(* typed_zero_pad_weights: the weights.                                    *)
(***************************************************************************)
\* the wht_blk_off macro; k holds the w_groups, is_1d and is_3d in scope
wht_blk_off(m, k, g, o, i, d, h, w) ==
    IF k.is_1d = 1 THEN blk_off(m, k.w_groups = 0, <<g, o, i, w>>)
    ELSE IF k.is_3d = 1 THEN blk_off(m, k.w_groups = 0, <<g, o, i, d, h, w>>)
    ELSE blk_off(m, k.w_groups = 0, <<g, o, i, h, w>>)

\* the index tuples of parallel_nd(G, X, D, H, W, ...)
space5(G, X, D, H, W) ==
    {<<g, x, d, h, w>> : g \in 0..(G - 1), x \in 0..(X - 1), d \in 0..(D - 1),
                         h \in 0..(H - 1), w \in 0..(W - 1)}

\* the constants of the handler of the output-blocked weights
wei_O_consts(m) ==
    LET w_groups == IF m.fmt \in wei_O_w_groups_fmt THEN 1 ELSE 0
        is_1d == IF m.fmt \in wei_O_is_1d_fmt THEN 1 ELSE 0
        is_3d == IF m.fmt \in wei_O_is_3d_fmt THEN 1 ELSE 0
        blksize == IF m.fmt \in wei_O_blksize8_fmt THEN 8 ELSE 16
    IN  [w_groups |-> w_groups, is_1d |-> is_1d, is_3d |-> is_3d,
         blksize |-> blksize,
         G |-> IF w_groups = 1 THEN Dim(m, 0) ELSE 1,
         NB_OC |-> PDim(m, w_groups + 0) \div blksize,
         IC |-> Dim(m, w_groups + 1),
         D |-> IF is_3d = 1 THEN Dim(m, w_groups + 2) ELSE 1,
         H |-> IF is_1d = 1 THEN 1 ELSE Dim(m, w_groups + 2 + is_3d),
         W |-> Dim(m, w_groups + 3 - is_1d + is_3d),
         oc_tail |-> PDim(m, w_groups + 0) - Dim(m, w_groups + 0)]

wei_O_space(m) ==
    LET k == wei_O_consts(m) IN space5(k.G, k.IC, k.D, k.H, k.W)

wei_O_body(m, t) ==
    LET k == wei_O_consts(m)
        x == wht_blk_off(m, k, t[1], k.NB_OC - 1, t[2], t[3], t[4], t[5])
    IN  {x + oc : oc \in (k.blksize - k.oc_tail)..(k.blksize - 1)}

\* the constants of the handler of the input-blocked weights
wei_I_consts(m) ==
    LET w_groups == 0
        is_3d == IF m.fmt \in wei_I_is_3d_fmt THEN 1 ELSE 0
        blksize == IF m.fmt \in wei_I_blksize8_fmt THEN 8 ELSE 16
    IN  [w_groups |-> w_groups, is_3d |-> is_3d, blksize |-> blksize,
         G |-> IF w_groups = 1 THEN Dim(m, 0) ELSE 1,
         OC |-> Dim(m, w_groups + 0),
         NB_IC |-> PDim(m, w_groups + 1) \div blksize,
         D |-> IF is_3d = 1 THEN Dim(m, w_groups + 2) ELSE 1,
         H |-> Dim(m, w_groups + 2 + is_3d),
         W |-> Dim(m, w_groups + 3 + is_3d),
         ic_tail |-> PDim(m, w_groups + 1) - Dim(m, w_groups + 1)]

wei_I_space(m) ==
    LET k == wei_I_consts(m) IN space5(k.G, k.OC, k.D, k.H, k.W)

wei_I_body(m, t) ==
    LET k == wei_I_consts(m)
        x == IF k.is_3d = 1
             THEN blk_off(m, k.w_groups = 0,
                          <<t[1], t[2], k.NB_IC - 1, t[3], t[4], t[5]>>)
             ELSE blk_off(m, k.w_groups = 0,
                          <<t[1], t[2], k.NB_IC - 1, t[4], t[5]>>)
    IN  {x + ic : ic \in (k.blksize - k.ic_tail)..(k.blksize - 1)}

\* the constants of the handler of the weights blocked on both channel axes
wei_IO_consts(m) ==
    LET w_groups == IF m.fmt \in wei_IO_w_groups_fmt THEN 1 ELSE 0
        is_1d == IF m.fmt \in wei_IO_is_1d_fmt THEN 1 ELSE 0
        is_3d == IF m.fmt \in wei_IO_is_3d_fmt THEN 1 ELSE 0
        blksize == IF m.fmt \in wei_IO_blksize8_fmt THEN 8 ELSE 16
    IN  [w_groups |-> w_groups, is_1d |-> is_1d, is_3d |-> is_3d,
         blksize |-> blksize,
         G |-> IF w_groups = 1 THEN Dim(m, 0) ELSE 1,
         NB_OC |-> PDim(m, w_groups + 0) \div blksize,
         NB_IC |-> PDim(m, w_groups + 1) \div blksize,
         D |-> IF is_3d = 1 THEN Dim(m, w_groups + 2) ELSE 1,
         H |-> IF is_1d = 1 THEN 1 ELSE Dim(m, w_groups + 2 + is_3d),
         W |-> Dim(m, w_groups + 3 - is_1d + is_3d),
         oc_tail |-> PDim(m, w_groups + 0) - Dim(m, w_groups + 0),
         ic_tail |-> PDim(m, w_groups + 1) - Dim(m, w_groups + 1)]

\* the index lambda
index(f, blksize, ic, oc) ==
    IF f \in index_8i16o2i_fmt
    THEN (ic \div 2) * blksize * 2 + 2 * oc + (ic % 2)
    ELSE IF f \in index_4i16o4i_fmt
    THEN (ic \div 4) * blksize * 4 + oc * 4 + (ic % 4)
    ELSE IF f \in index_8o16i2o_fmt
    THEN (oc \div 2) * blksize * 2 + 2 * ic + (oc % 2)
    ELSE IF f \in index_io_fmt
    THEN ic * blksize + oc
    ELSE oc * blksize + ic

\* the ker lambda: the offsets it stores to, d being the tile's offset
ker(f, blksize, d, oc_tail, ic_tail) ==
    {d + index(f, blksize, ic, oc) :
        oc \in 0..(blksize - oc_tail - 1),
        ic \in (blksize - ic_tail)..(blksize - 1)}
    \cup {d + index(f, blksize, ic, oc) :
            oc \in (blksize - oc_tail)..(blksize - 1), ic \in 0..(blksize - 1)}

\* if (ic_tail) parallel_nd(G, NB_OC, D, H, W, ...)
wei_IO_ic_space(m) ==
    LET k == wei_IO_consts(m) IN space5(k.G, k.NB_OC, k.D, k.H, k.W)

wei_IO_ic_body(m, t) ==
    LET k == wei_IO_consts(m)
        x == wht_blk_off(m, k, t[1], t[2], k.NB_IC - 1, t[3], t[4], t[5])
    IN  ker(m.fmt, k.blksize, x, 0, k.ic_tail)

\* if (oc_tail) parallel_nd(G, NB_IC, D, H, W, ...)
wei_IO_oc_space(m) ==
    LET k == wei_IO_consts(m) IN space5(k.G, k.NB_IC, k.D, k.H, k.W)

wei_IO_oc_body(m, t) ==
    LET k == wei_IO_consts(m)
        x == wht_blk_off(m, k, t[1], k.NB_OC - 1, t[2], t[3], t[4], t[5])
    IN  ker(m.fmt, k.blksize, x, k.oc_tail, 0)

wei_G_blksize(f) == IF f = "Goihw8g" THEN 8 ELSE 16

\* assert(g_tail_start != 0)
wei_G_assert(m) == Dim(m, 0) % wei_G_blksize(m.fmt) # 0

\* parallel_nd(sz_rest, ...)
wei_G_space(m) ==
    {<<s>> : s \in 0..(array_product(m.dims, 1, NDims(m) - 1) - 1)}

wei_G_body(m, t) ==
    LET blksize == wei_G_blksize(m.fmt)
        G == (PDim(m, 0) \div blksize) - 1
        g_tail_start == Dim(m, 0) % blksize
        d == blk_off(m, FALSE, <<G>>)
    IN  {d + t[1] * blksize + g : g \in g_tail_start..(blksize - 1)}

(***************************************************************************)
(* typed_zero_pad_generic_blocked.                                         *)
(***************************************************************************)
RECURSIVE generic_scan(_, _, _)
\* the loop that finds step_dim and step, entered with (ndims - 1, 1)
generic_scan(m, step_dim, step) ==
    IF step_dim < 0 THEN [step_dim |-> step_dim, step |-> step]
    ELSE IF Dim(m, step_dim) # PDim(m, step_dim)
    THEN [step_dim |-> step_dim, step |-> step]
    ELSE generic_scan(m, step_dim - 1, step * Dim(m, step_dim))

generic_step(m) == generic_scan(m, NDims(m) - 1, 1)

\* assert(step_dim >= 0 && "no zero padding is required")
generic_assert(m) == generic_step(m).step_dim >= 0

RECURSIVE generic_need_zero(_, _, _)
\* the loop over d = step_dim .. 0 that decides need_zero
generic_need_zero(m, idx, d) ==
    IF d < 0 THEN FALSE
    ELSE IF idx % PDim(m, d) >= Dim(m, d) THEN TRUE
    ELSE generic_need_zero(m, idx \div PDim(m, d), d - 1)

\* parallel_nd(nelems, ...)
generic_space(m) == {<<e>> : e \in 0..(nelems(m, TRUE) - 1)}

\* the flat indices e + e0 iteration e passes to off_l
generic_flat(m, t) ==
    LET s == generic_step(m)
        e == t[1]
    IN  IF generic_need_zero(m, e \div s.step, s.step_dim)
        THEN {e + e0 : e0 \in 0..(s.step - 1)}
        ELSE {}

generic_body(m, t) == {off_l(m, x) : x \in generic_flat(m, t)}

(***************************************************************************)
(* typed_zero_pad and zero_pad: the dispatch.                              *)
(***************************************************************************)
\* the handler typed_zero_pad calls for the format, after the test on nelems
handler_of(f) ==
    IF f \in dispatched_fmt /\ f \in is_data_blocked_fmt THEN "data"
    ELSE IF f \in dispatched_fmt /\ f \in is_wei_O_blocked_fmt THEN "wei_O"
    ELSE IF f \in dispatched_fmt /\ f \in is_wei_I_blocked_fmt THEN "wei_I"
    ELSE IF f \in dispatched_fmt /\ f \in is_wei_IO_blocked_fmt THEN "wei_IO"
    ELSE IF f \in dispatched_fmt /\ f \in is_wei_G_blocked_fmt THEN "wei_G"
    ELSE IF format_normalize(f) = "blocked" THEN "generic"
    ELSE "unimplemented"

\* the test on nelems left out
no_padding_never(m) == FALSE

\* if (mpd.nelems(false) == mpd.nelems(true)) return success;
no_padding(m) == nelems(m, FALSE) = nelems(m, TRUE)

typed_zero_pad(m) == IF no_padding(m) THEN "no_padding" ELSE handler_of(m.fmt)

\* skip_zeroing without data_ == nullptr
skip_zeroing_no_null(m, nul) == is_zero(m) \/ ~is_blocking_desc(m)

\* skip_zeroing
skip_zeroing(m, nul) == nul \/ is_zero(m) \/ ~is_blocking_desc(m)

\* a switch whose default falls into a typed case
type_dispatched_any(m) == TRUE

\* the switch on md.data_type()
type_dispatched(m) == m.dt \in {"f32", "s32", "s16", "s8", "u8"}

\* the branch a call takes
zero_pad(m, nul) ==
    IF skip_zeroing(m, nul) THEN "skip"
    ELSE IF ~type_dispatched(m) THEN "undefined_type"
    ELSE typed_zero_pad(m)

\* the parallel_nd loops a handler runs, in order
loops_of(m, h) ==
    CASE h = "data" -> <<"data">>
      [] h = "wei_O" -> <<"wei_O">>
      [] h = "wei_I" -> <<"wei_I">>
      [] h = "wei_IO" ->
            (IF wei_IO_consts(m).ic_tail # 0 THEN <<"wei_IO_ic">> ELSE << >>)
            \o (IF wei_IO_consts(m).oc_tail # 0 THEN <<"wei_IO_oc">> ELSE << >>)
      [] h = "wei_G" -> <<"wei_G">>
      [] h = "generic" ->
            IF generic_step(m).step_dim < 0 THEN << >> ELSE <<"generic">>
      [] OTHER -> << >>

\* the handler's assert holds (a handler without one: TRUE)
assert_of(m, h) ==
    CASE h = "data" -> typed_zero_pad_data_assert(m)
      [] h = "wei_G" -> wei_G_assert(m)
      [] h = "generic" -> generic_assert(m)
      [] OTHER -> TRUE

space_of(m, l) ==
    CASE l = "data" -> typed_zero_pad_data_space(m)
      [] l = "wei_O" -> wei_O_space(m)
      [] l = "wei_I" -> wei_I_space(m)
      [] l = "wei_IO_ic" -> wei_IO_ic_space(m)
      [] l = "wei_IO_oc" -> wei_IO_oc_space(m)
      [] l = "wei_G" -> wei_G_space(m)
      [] l = "generic" -> generic_space(m)

body_of(m, l, t) ==
    CASE l = "data" -> typed_zero_pad_data_body(m, t)
      [] l = "wei_O" -> wei_O_body(m, t)
      [] l = "wei_I" -> wei_I_body(m, t)
      [] l = "wei_IO_ic" -> wei_IO_ic_body(m, t)
      [] l = "wei_IO_oc" -> wei_IO_oc_body(m, t)
      [] l = "wei_G" -> wei_G_body(m, t)
      [] l = "generic" -> generic_body(m, t)

\* the offsets a whole parallel_nd loop stores to
loop_stores(m, l) == UNION {body_of(m, l, t) : t \in space_of(m, l)}

\* the offsets a whole handler stores to
handler_stores(m, h) ==
    LET ls == loops_of(m, h)
    IN  UNION {loop_stores(m, ls[i]) : i \in 1..Len(ls)}

\* the flat indices one iteration passes to off_l, with the iteration
flat_of(m, l, t) ==
    IF l = "generic" THEN {<<t[1], x>> : x \in generic_flat(m, t)} ELSE {}

\* the flat indices a whole handler passes to off_l
handler_flat(m, h) ==
    LET ls == loops_of(m, h)
    IN  UNION {UNION {flat_of(m, ls[i], t) : t \in space_of(m, ls[i])} :
                  i \in 1..Len(ls)}

\* d[...] -= 1
store_decrement(old) == old - 1

\* the value a store writes: d[...] = 0
store(old) == 0

stored(b, W) == [a \in DOMAIN b |-> IF a \in W THEN store(b[a]) ELSE b[a]]

\* the status a branch returns
status_of(p) ==
    IF p \in {"undefined_type", "unimplemented"} THEN "unimplemented"
    ELSE "success"

(***************************************************************************)
(* The state machine: calls of zero_pad on one memory object.  A handler   *)
(* stores inside parallel_nd: the call enters the handler (ZeroPadBegin),  *)
(* the index tuples of the running parallel_nd run one at a time           *)
(* (ParIter), the handler of the weights blocked on both channel axes      *)
(* starts its second parallel_nd when the first has returned               *)
(* (ParNextLoop), and the call returns when the last parallel_nd has       *)
(* (ZeroPadReturn).                                                        *)
(***************************************************************************)
\* a precedes b in the order in which one thread runs its index tuples:
\* the last index moves fastest
RECURSIVE lex_less(_, _, _)
lex_less(a, b, i) ==
    IF i > Len(a) THEN FALSE
    ELSE IF a[i] # b[i] THEN a[i] < b[i]
    ELSE lex_less(a, b, i + 1)

\* the index tuples that may run next: with one thread the first of those
\* left, with a thread for every index tuple any of those left
runnable(S, n) ==
    IF n = 1 THEN {t \in S : \A u \in S \ {t} : lex_less(t, u, 1)} ELSE S

\* the most index tuples one parallel_nd of a call on the object runs
RECURSIVE max_iterations(_, _, _)
max_iterations(m, ls, i) ==
    IF i > Len(ls) THEN 0
    ELSE LET n == Cardinality(space_of(m, ls[i]))
             r == max_iterations(m, ls, i + 1)
         IN  IF n > r THEN n ELSE r

iterations(m, nul) == max_iterations(m, loops_of(m, zero_pad(m, nul)), 1)

\* the numbers of threads the object is run with: one, or one for every
\* index tuple of its parallel_nd loops
threads(m, nul) ==
    {1} \cup {n \in {MaxParIters} : iterations(m, nul) \in 2..n}

Init ==
    /\ \E o \in memory_objects :
          /\ md = o[1]
          /\ data_null = o[2]
          /\ buf = fresh_buffer(o[1])
          /\ pre = fresh_buffer(o[1])
          /\ nthr \in threads(o[1], o[2])
    /\ status = "none"
    /\ path = "none"
    /\ written = {}
    /\ flat = {}
    /\ multi = {}
    /\ twice = {}
    /\ asserted = FALSE
    /\ calls = 0
    /\ pc = "idle"
    /\ sweeps = << >>
    /\ pending = {}
    /\ writers = {}

par_vars == <<pc, sweeps, pending, writers>>

CanCall == pc = "idle" /\ calls < MaxCalls /\ status # "assert_abort"

\* a call that returns from zero_pad or typed_zero_pad before any handler
Returned(p, st) ==
    /\ pre' = buf
    /\ status' = st
    /\ path' = p
    /\ written' = {}
    /\ flat' = {}
    /\ multi' = {}
    /\ twice' = {}
    /\ asserted' = FALSE
    /\ calls' = calls + 1
    /\ UNCHANGED <<md, data_null, nthr, buf>>

\* zero_pad returns success at skip_zeroing
ZeroPadSkip ==
    /\ CanCall
    /\ zero_pad(md, data_null) = "skip"
    /\ Returned("skip", "success")
    /\ UNCHANGED par_vars

\* zero_pad reaches the default of the switch: the assert aborts a debug
\* build, a release build returns unimplemented
ZeroPadUndefinedType ==
    /\ CanCall
    /\ zero_pad(md, data_null) = "undefined_type"
    /\ \E st \in {"unimplemented", "assert_abort"} :
          Returned("undefined_type", st)
    /\ UNCHANGED par_vars

\* typed_zero_pad returns before any handler
ZeroPadNoHandler ==
    /\ CanCall
    /\ zero_pad(md, data_null) \in {"no_padding", "unimplemented"}
    /\ Returned(zero_pad(md, data_null), status_of(zero_pad(md, data_null)))
    /\ UNCHANGED par_vars

\* typed_zero_pad enters a handler, which starts its first parallel_nd
ZeroPadBegin ==
    /\ CanCall
    /\ LET h == zero_pad(md, data_null)
           ls == loops_of(md, h)
       IN  /\ h \in {"data", "wei_O", "wei_I", "wei_IO", "wei_G", "generic"}
           /\ path' = h
           /\ asserted' = ~assert_of(md, h)
           /\ sweeps' = ls
           /\ pending' = IF Len(ls) = 0 THEN {} ELSE space_of(md, ls[1])
    /\ pre' = buf
    /\ status' = "running"
    /\ written' = {}
    /\ flat' = {}
    /\ multi' = {}
    /\ twice' = {}
    /\ writers' = {}
    /\ pc' = "par"
    /\ UNCHANGED <<md, data_null, nthr, buf, calls>>

\* one index tuple of the running parallel_nd
ParIter ==
    /\ pc = "par"
    /\ \E t \in runnable(pending, nthr) :
          LET B == body_of(md, sweeps[1], t)
          IN  /\ buf' = stored(buf, B)
              /\ written' = written \cup B
              /\ flat' = flat \cup flat_of(md, sweeps[1], t)
              /\ multi' = multi \cup (B \cap writers)
              /\ twice' = twice \cup (B \cap written)
              /\ writers' = writers \cup B
              /\ pending' = pending \ {t}
    /\ UNCHANGED <<md, data_null, nthr, pre, status, path, asserted, calls, pc,
                   sweeps>>

\* the running parallel_nd returns and the handler starts its next one
ParNextLoop ==
    /\ pc = "par"
    /\ pending = {}
    /\ Len(sweeps) > 1
    /\ sweeps' = Tail(sweeps)
    /\ pending' = space_of(md, sweeps[2])
    /\ writers' = {}
    /\ UNCHANGED <<md, data_null, nthr, buf, pre, status, path, written, flat,
                   multi, twice, asserted, calls, pc>>

\* the last parallel_nd returns and so does the call
ZeroPadReturn ==
    /\ pc = "par"
    /\ pending = {}
    /\ Len(sweeps) <= 1
    /\ sweeps' = << >>
    /\ writers' = {}
    /\ pc' = "idle"
    /\ status' = "success"
    /\ calls' = calls + 1
    /\ UNCHANGED <<md, data_null, nthr, buf, pre, path, written, flat, multi,
                   twice, asserted, pending>>

Next ==
    \/ ZeroPadSkip \/ ZeroPadUndefinedType \/ ZeroPadNoHandler
    \/ ZeroPadBegin \/ ParIter \/ ParNextLoop \/ ZeroPadReturn

Spec == Init /\ [][Next]_vars

(***************************************************************************)
(* The index space of a descriptor: logical and padding elements.          *)
(***************************************************************************)
\* the position is within dims on every axis
is_logical(m, pos) == \A d \in DOMAIN pos : pos[d] < m.dims[d + 1]

flat_indices(m) == 0..(nelems(m, TRUE) - 1)

\* the physical offsets of the positions of the padded index space that
\* satisfy Sel
offsets_sat(m, Sel(_)) ==
    LET L == layout(m)
        sp == flat_spans(m)
    IN  {off_v_at(L, pos_at(m, sp, l)) :
            l \in {x \in flat_indices(m) : Sel(pos_at(m, sp, x))}}

\* the physical offsets that hold a logical element
logical_offsets(m) == offsets_sat(m, LAMBDA pos : is_logical(m, pos))

\* the physical offsets that hold a padding element
padding_offsets(m) == offsets_sat(m, LAMBDA pos : ~is_logical(m, pos))

\* the flat indices that hold a padding element
padding_indices(m) ==
    {x \in flat_indices(m) : ~is_logical(m, pos_l(m, x))}

\* the axes of the output and of the input channels of a weights tag
oc_axis(m) == tag_g(m.fmt)
ic_axis(m) == tag_g(m.fmt) + 1

\* the tails of the weights blocked on both channel axes
input_tail(m) == PDim(m, ic_axis(m)) - Dim(m, ic_axis(m))
output_tail(m) == PDim(m, oc_axis(m)) - Dim(m, oc_axis(m))

\* sweep 1: the input tail of the last input tile, in every output tile
sweep1_offsets(m) ==
    offsets_sat(m, LAMBDA pos : pos[ic_axis(m)] >= Dim(m, ic_axis(m)))

\* sweep 2: the output tail of the last output tile, in every input tile
sweep2_offsets(m) ==
    offsets_sat(m, LAMBDA pos : pos[oc_axis(m)] >= Dim(m, oc_axis(m)))

\* the tiles that are the last output tile and the last input tile
in_corner_tile(m, pos) ==
    /\ pos[ic_axis(m)] >= PDim(m, ic_axis(m)) - tag_blk(m.fmt)
    /\ pos[oc_axis(m)] >= PDim(m, oc_axis(m)) - tag_blk(m.fmt)

corner_tile_offsets(m) ==
    IF m.fmt \in is_wei_IO_blocked_fmt
    THEN offsets_sat(m, LAMBDA pos : in_corner_tile(m, pos))
    ELSE {}

\* the padding of the corner tiles
corner_padding_offsets(m) ==
    offsets_sat(m, LAMBDA pos : in_corner_tile(m, pos) /\ ~is_logical(m, pos))

handlers == {"data", "wei_O", "wei_I", "wei_IO", "wei_G", "generic"}

\* a call has been made and has returned
returned == calls > 0 /\ pc = "idle"

\* whatever the order of the index tuples, a handler has stored to the
\* offsets of all its index tuples when it returns
OrderIndependent ==
    (returned /\ path \in handlers) =>
        /\ written = handler_stores(md, path)
        /\ flat = handler_flat(md, path)
        /\ buf = stored(pre, written)

\* every store lands inside the buffer
StoresInBuffer == written \subseteq DOMAIN buf

\* the layout maps the padded index space one to one onto the buffer (the
\* descriptor never changes: it is enough to look before the first call)
LayoutIsBijection ==
    (status = "none" /\ is_blocking_desc(md)) =>
        {off_l(md, l) : l \in flat_indices(md)} = DOMAIN buf

\* the dedicated handlers leave the logical elements alone
DedicatedPreserve ==
    (returned /\ path \in handlers \ {"generic"}) =>
        \A a \in logical_offsets(md) : buf[a] = pre[a]

\* the dedicated handlers store exactly to the padding
DedicatedExact ==
    (returned /\ path \in handlers \ {"generic"}
        /\ md.fmt \notin {"gOIw16i16o", "gOIw16o16i"}) =>
        written = padding_offsets(md)

GenericCovers ==
    (returned /\ path = "generic") => padding_offsets(md) \subseteq written

(***************************************************************************)
(* The claims.                                                             *)
(***************************************************************************)
\* C1: after a call that ran a handler (a dedicated one or the generic
\* fallback), every offset that holds a logical element has the value it
\* had before the call.
C1_LogicalPreserved ==
    (returned /\ path \in handlers) =>
        \A a \in logical_offsets(md) : buf[a] = pre[a]

\* C2: after a call that ran a handler and returned success, every padding
\* element (within paddedDims, outside dims on a blocked axis) is zero.
C2_PaddingZeroed ==
    (returned /\ path \in handlers /\ status = "success") =>
        \A a \in padding_offsets(md) : buf[a] = 0

\* C3 as stated: a call with a data type outside {f32, s32, s16, s8, u8}
\* or with a format outside the supported sets returns unimplemented and
\* leaves the buffer unmodified.
C3_UnsupportedIsUnimplemented ==
    (returned /\ (md.dt \notin data_types
                   \/ md.fmt \notin dispatched_fmt \cup generic_fmt)) =>
        (status = "unimplemented" /\ buf = pre)

\* C3 amended: a call that passes skip_zeroing with a data type outside the
\* set returns unimplemented (a debug build stops at the assert) and
\* stores nothing; a call on a format that is no blocking layout returns
\* success and stores nothing; a call that returns an error stored nothing.
C3_UnsupportedStoresNothing ==
    returned =>
        /\ (md.dt \notin data_types /\ ~data_null /\ ~is_zero(md)
              /\ is_blocking_desc(md)) =>
                (status \in {"unimplemented", "assert_abort"}
                    /\ written = {} /\ buf = pre)
        /\ ~is_blocking_desc(md) =>
                (status = "success" /\ written = {} /\ buf = pre)
        /\ status # "success" => (written = {} /\ buf = pre)

\* C3 witness: a call on a descriptor of undefined data type returned
\* unimplemented.
C3_Witness ==
    returned /\ md.dt \notin data_types /\ ~data_null
        /\ status = "unimplemented"

\* C4: a call returns success and stores nothing when the buffer is null,
\* the descriptor is zero, the layout is no blocking layout, or the data
\* type is supported and the padded and logical element counts are equal.
C4_NoOp ==
    (returned /\ (\/ data_null
                   \/ is_zero(md)
                   \/ ~is_blocking_desc(md)
                   \/ (md.dt \in data_types
                         /\ nelems(md, TRUE) = nelems(md, FALSE)))) =>
        (status = "success" /\ written = {} /\ buf = pre)

\* C4 witness: a call on a tag with a dedicated handler and no padding.
C4_Witness ==
    returned /\ ~data_null /\ md.fmt \in dispatched_fmt
        /\ md.dt \in data_types /\ nelems(md, TRUE) = nelems(md, FALSE)
        /\ path = "no_padding"

\* C5: for a tag blocked on both channel axes with both tails non-zero, the
\* padding of the corner tile is zero after the call and the call stored
\* exactly to the union of the two sweeps.
C5_JointCorner ==
    (returned /\ path = "wei_IO" /\ input_tail(md) > 0
        /\ output_tail(md) > 0) =>
        /\ \A a \in corner_padding_offsets(md) : buf[a] = 0
        /\ written = sweep1_offsets(md) \cup sweep2_offsets(md)

\* C6: a second call leaves the buffer as the first call left it.
C6_Idempotent == (calls >= 2 /\ pc = "idle") => buf = pre

\* C6 witness: a second call that ran a handler and stored.
C6_Witness ==
    calls = 2 /\ pc = "idle" /\ path \in handlers /\ written # {} /\ buf # fresh_buffer(md)

\* C7: the generic fallback runs only the iterations e that are multiples
\* of step, passes to off_l only indices of e's own run that lie in
\* [0, nelems), and the indices it zeroes are those of the padding.
C7_GenericRunAligned ==
    (returned /\ path = "generic") =>
        /\ \A p \in flat :
              /\ p[1] % generic_step(md).step = 0
              /\ p[2] \in p[1]..(p[1] + generic_step(md).step - 1)
              /\ p[2] \in flat_indices(md)
        /\ {p[2] : p \in flat} = padding_indices(md)

\* C8: no two index tuples of one parallel_nd store to the same offset, and
\* the offsets stored to more than once during a call lie in the corner
\* tile of the two sweeps of the weights blocked on both channel axes.
C8_WritesDisjoint ==
    /\ multi = {}
    /\ (twice = {} \/ twice \subseteq corner_tile_offsets(md))

\* C9: the handlers' asserts hold: the channel-blocked handler runs only
\* with dims[1] % blksize != 0, the group-blocked one only with
\* dims[0] % blksize != 0, the generic fallback only with an axis whose
\* dims differ from its padded dims.
C9_AssertsHold ==
    returned =>
        /\ ~asserted
        /\ path = "data" => Dim(md, 1) % data_blksize(md.fmt) # 0
        /\ path = "wei_G" => Dim(md, 0) % wei_G_blksize(md.fmt) # 0
        /\ path = "generic" =>
              \E d \in 0..(NDims(md) - 1) : Dim(md, d) # PDim(md, d)

\* C9 witness: the generic fallback ran.
C9_Witness == returned /\ path = "generic" /\ written # {}

\* C10: in the handlers of the output-blocked and of the jointly blocked
\* weights, w_groups, is_1d, is_3d and blksize are what the tag's name
\* says, and a grouped tag takes the groups from axis 0 and iterates over
\* every group.
C10_ClassifierAgrees ==
    (returned /\ path \in {"wei_O", "wei_IO"}) =>
        LET k == IF path = "wei_O" THEN wei_O_consts(md)
                 ELSE wei_IO_consts(md)
        IN  /\ k.w_groups = tag_g(md.fmt)
            /\ (k.is_1d = 1) = (md.fmt \in tag_1d)
            /\ (k.is_3d = 1) = (md.fmt \in tag_3d)
            /\ k.blksize = tag_blk(md.fmt)
            /\ md.fmt \in tag_grouped =>
                  /\ k.G = Dim(md, 0)
                  /\ k.NB_OC = PDim(md, 1) \div tag_blk(md.fmt)
====
